---------------------------- MODULE Spec2Model ----------------------------
(***************************************************************************)
(* A model of wavey (src/src/main.rs): the game loop of main / play_game / *)
(* play_level, the radar sweep circle_render, and the geometry they use    *)
(* (Line::near, Asteroid::vertices, Asteroid::edges, polar2euclidean).     *)
(*                                                                         *)
(* Numbers.  The program computes in f32.  The model computes on the       *)
(* integer pixel grid: a point is a record [x, y] of integers, a product   *)
(* with a cosine or sine is rounded to the nearest integer, and angles are *)
(* milliradians.  Tolerances are passed in tenths, so that                 *)
(* CLOSENESS_TOLERANCE = 0.3 is the integer 3 and SHIP_SIZE = 10.0 is 100. *)
(*                                                                         *)
(* Steps.  The program is one async task that yields at next_frame().await *)
(* An action of the model is the code that runs from one yield to the next *)
(* (or between two points where no key is read), with the keys of the      *)
(* frame as its inputs.                                                    *)
(***************************************************************************)
EXTENDS Integers, Sequences, FiniteSets

(***************************************************************************)
(* Program constants.                                                      *)
(***************************************************************************)
DST_SIZE == 5
SHIP_SIZE == 10
NUM_ASTEROIDS == 10
SCAN_SPEED == 7
ANGLE_PRECISION == 100
\* CLOSENESS_TOLERANCE: f32 = 0.3, in tenths
CLOSENESS_TOLERANCE_TENTHS == 3
\* let mut scans = 12 - (level / 3)
INITIAL_SCANS == 12
\* for level in 1..50
LAST_LEVEL == 49
\* random_asteroid: sides is drawn from 3..8, radius from 5.0..40.0
MIN_SIDES == 3
MAX_SIDES == 7
MIN_RADIUS == 5
\* for angle in 0..=360 * ANGLE_PRECISION
FULL_TURN_DEGREES == 360
\* std::f32::consts::PI, in thousandths
PI_MILLI == 3142
\* usize arithmetic wraps modulo 2^64 when overflow checks are off; TLC's
\* integers are 32 bits wide, so the model wraps modulo 2^30
UsizeModulus == 1073741824

(***************************************************************************)
(* Bounds of the model.                                                    *)
(***************************************************************************)
\* screen_width() = 2 * HalfWidth, screen_height() = 2 * HalfHeight
HalfWidth == 11
HalfHeight == 11
\* the sweep samples NumSamples of the angles 0..=360*ANGLE_PRECISION,
\* AngleStride apart
NumSamples == 4
AngleStride == 157
\* scans started in one level
MaxSweeps == 2
\* nested random_asteroid calls that rejected their candidate
MaxDepth == 2
\* the largest coordinate of the points Line::new and Line::near are called with
MaxCoord == 2

VARIABLES
    pc,               \* where the program is
    level,            \* play_game: the for loop's level
    win,              \* play_game: win
    scans,            \* play_level: scans
    ship,             \* play_level: ship
    destination,      \* play_level: destination
    asteroids,        \* play_level: asteroids
    depth,            \* random_asteroid: rejected candidates of the current call chain
    scan_radius,      \* circle_render: scan_radius of the frame being shown
    excluded_angles,  \* circle_render: excluded_angles
    drawn_pixels,     \* circle_render: drawn_pixels
    sampled,          \* circle_render: the angles pixels_in_circle returned in the last frame
    play_again,       \* play_game: play_again, once it has returned
    sweepFrames,      \* history: frames the current sweep has rendered
    sweepChecks,      \* history: calls of interrupted_by_movement in the current sweep
    checkDown,        \* history: a movement key was down at the sweep's last check
    checkTapped,      \* history: a movement key went down and up before a check of the sweep
    sweepEnd,         \* history: how the sweep that just returned ended
    endClean,         \* history: that sweep's last iteration left its map and list alone
    sweepsStarted,    \* history: circle_render calls in this level
    initScans,        \* history: scans as play_level initialised it
    levelsWon,        \* history: levels of this game that returned true
    levelsLost,       \* history: levels of this game that returned false
    promptShown,      \* history: the replay prompt was drawn in this game
    keysYN,           \* history: the Y/N keys of the last prompt check
    call,             \* a function called on its own: which one, and its arguments
    ret               \* what that call did: panicked, or the value it returned

vars == <<pc, level, win, scans, ship, destination, asteroids, depth,
          scan_radius, excluded_angles, drawn_pixels, sampled, play_again,
          sweepFrames, sweepChecks, checkDown, checkTapped, sweepEnd, endClean,
          sweepsStarted, initScans, levelsWon, levelsLost, promptShown, keysYN,
          call, ret>>

gameVars == <<level, win, levelsWon, levelsLost, promptShown, keysYN, play_again>>
callVars == <<call, ret>>
levelVars == <<scans, ship, destination, asteroids, depth, sweepsStarted, initScans>>
sweepVars == <<scan_radius, excluded_angles, drawn_pixels, sampled, sweepFrames,
               sweepChecks, checkDown, checkTapped, sweepEnd, endClean>>

(***************************************************************************)
(* Arithmetic.                                                             *)
(***************************************************************************)
Abs(n) == IF n < 0 THEN -n ELSE n

\* n / d rounded to the nearest integer (d > 0)
Round(n, d) == (2 * n + d) \div (2 * d)

Point(px, py) == [x |-> px, y |-> py]

\* 1000 * cos(x / 1000): the argument is reduced to [0, pi/2] and the
\* cosine series is summed to the sixth power
CosMilli(x) ==
    LET r  == x % (2 * PI_MILLI)
        h  == IF r > PI_MILLI THEN 2 * PI_MILLI - r ELSE r
        q  == IF h > PI_MILLI \div 2 THEN PI_MILLI - h ELSE h
        t  == (q * q) \div 1000
        t2 == (t * t) \div 1000
        c  == 1000 - t \div 2 + t2 \div 24 - ((t2 * t) \div 1000) \div 720
    IN  IF h > PI_MILLI \div 2 THEN -c ELSE c

SinMilli(x) == CosMilli(x - PI_MILLI \div 2)

screen_width == 2 * HalfWidth
screen_height == 2 * HalfHeight

(***************************************************************************)
(* Line.                                                                   *)
(***************************************************************************)
\* Line::new without the test of lines 36-38
LinePanicsNever(a, b) == FALSE

\* Line::new lines 36-38: the endpoints are the same point, and it panics
LinePanics(a, b) == a.x = b.x /\ a.y = b.y

\* Line::new line 39: the segment it returns otherwise
LineNew(a, b) == [a |-> a, b |-> b]

\* Line::near, the tolerance in tenths
near(line, point, tol10) ==
    LET cross_product == (point.y - line.a.y) * (line.b.x - line.a.x)
                         - (point.x - line.a.x) * (line.b.y - line.a.y)
        dot_product == (point.x - line.a.x) * (line.b.x - line.a.x)
                       + (point.y - line.a.y) * (line.b.y - line.a.y)
        squared_length == (line.b.x - line.a.x) * (line.b.x - line.a.x)
                          + (line.b.y - line.a.y) * (line.b.y - line.a.y)
    IN  IF 10 * Abs(cross_product) > tol10 THEN FALSE
        ELSE IF 10 * dot_product < tol10 THEN FALSE
        ELSE IF dot_product > squared_length THEN FALSE
        ELSE TRUE

(***************************************************************************)
(* Asteroid.                                                               *)
(***************************************************************************)
\* Asteroid::vertices; rotation is in milliradians
vertices(asteroid) ==
    [i \in 1..asteroid.sides |->
        LET angle == asteroid.rotation + ((i - 1) * 2 * PI_MILLI) \div asteroid.sides
        IN  Point(asteroid.pos.x + Round(asteroid.radius * CosMilli(angle), 1000),
                  asteroid.pos.y + Round(asteroid.radius * SinMilli(angle), 1000))]

\* Asteroid::edges without the edge that wraps around to the first vertex
edgesOpen(asteroid) ==
    LET vs == vertices(asteroid)
    IN  [i \in 1..(Len(vs) - 1) |-> LineNew(vs[i], vs[i + 1])]

\* Asteroid::edges: Line::new of each vertex and the next, the last with the first
edges(asteroid) ==
    LET vs == vertices(asteroid)
    IN  [i \in 1..Len(vs) |-> LineNew(vs[i], vs[(i % Len(vs)) + 1])]

\* edges() taken to panic on every asteroid
EdgesPanicAlways(asteroid) == TRUE

\* a call of edges() in which some Line::new panics
EdgesPanic(asteroid) ==
    LET vs == vertices(asteroid)
    IN  \E i \in 1..Len(vs) : LinePanics(vs[i], vs[(i % Len(vs)) + 1])

\* the asteroids the random generator is taken to draw: a hexagon down and
\* left of the screen centre, and a square with a vertex on the centre
Candidates ==
    { [pos |-> Point(HalfWidth - 10, HalfHeight + 8), sides |-> 6, radius |-> 11, rotation |-> 0],
      [pos |-> Point(HalfWidth + 5, HalfHeight), sides |-> 4, radius |-> 5, rotation |-> 0] }

\* random_asteroid's test of its candidate: some edge is near the ship
NearShip(asteroid, shipAt) ==
    LET es == edges(asteroid)
    IN  \E i \in 1..Len(es) : near(es[i], shipAt, 10 * SHIP_SIZE)

\* the destinations the random generator is taken to draw
Destinations == { Point(0, 0), Point(HalfWidth, HalfHeight) }

(***************************************************************************)
(* Radar sweep.                                                            *)
(***************************************************************************)
\* polar2euclidean, the angle in milliradians
polar2euclidean(center, radius, angle) ==
    Point(center.x + Round(radius * CosMilli(angle), 1000),
          center.y + Round(radius * SinMilli(angle), 1000))

\* the angles of `for angle in 0..=360 * ANGLE_PRECISION` that the model
\* samples, in increasing order
SampleAngles ==
    SelectSeq([k \in 1..NumSamples |-> (k - 1) * AngleStride],
              LAMBDA a : a <= FULL_TURN_DEGREES * ANGLE_PRECISION)

\* the empty HashMap
EmptyMap == [a \in {} |-> 0]

\* a map that holds an entry of an earlier sweep
StaleMap == [a \in {0} |-> SHIP_SIZE]

\* circle_render lines 181-182: the map and the list a sweep starts with
NewMap == EmptyMap
NewList == <<>>

\* HashMap::insert: adds the key, or overwrites its value
Insert(map, key, value) ==
    [k \in DOMAIN map \cup {key} |-> IF k = key THEN value ELSE map[k]]

\* pixels_in_circle without its `contains_key` test: every angle is sampled
pixels_in_circle_all(center, radius, excluded) ==
    [i \in 1..Len(SampleAngles) |->
        [pixel |-> polar2euclidean(center, radius,
                                   (SampleAngles[i] * 1000) \div ANGLE_PRECISION),
         angle |-> SampleAngles[i]]]

\* pixels_in_circle: a (pixel, angle) pair for each angle that is not excluded
pixels_in_circle(center, radius, excluded) ==
    LET free == SelectSeq(SampleAngles, LAMBDA a : a \notin DOMAIN excluded)
    IN  [i \in 1..Len(free) |->
            [pixel |-> polar2euclidean(center, radius,
                                       (free[i] * 1000) \div ANGLE_PRECISION),
             angle |-> free[i]]]

\* the movement keys
MoveKeys == {"W", "S", "A", "D"}

\* The movement keys of a frame, as the input provider reports them: `down`
\* are the keys is_key_down is true of; `tapped` says that some movement key
\* went down and came up again since the last frame, so that is_key_pressed
\* is true of it and is_key_down is not.
KeyStates == [down : SUBSET MoveKeys, tapped : BOOLEAN]

\* interrupted_by_movement: is_key_down of W, S, A or D
interrupted_by_movement(keys) ==
    "W" \in keys.down \/ "S" \in keys.down \/ "A" \in keys.down \/ "D" \in keys.down

\* play_level lines 223-226: the edges of all asteroids; the sweep and the
\* collision test only ask whether some edge is near, so equal edges count once
EdgeSet(asts) ==
    UNION { LET es == edges(a) IN {es[i] : i \in 1..Len(es)} :
            a \in {asts[j] : j \in 1..Len(asts)} }

\* circle_render's inner loop `for edge in edges { if edge.near(..) {..; break} }`
\* runs its body once when some edge is near the pixel, and not at all otherwise
EdgeHit(edgeSet, pixel) ==
    \E e \in edgeSet : near(e, pixel, CLOSENESS_TOLERANCE_TENTHS)

\* lines 190-199 without the `break` of line 196, a second edge matching
RECURSIVE ScanPixelsNoBreak(_, _, _, _, _)
ScanPixelsNoBreak(pixels, i, edgeSet, radius, acc) ==
    IF i > Len(pixels) THEN acc
    ELSE IF EdgeHit(edgeSet, pixels[i].pixel)
         THEN ScanPixelsNoBreak(pixels, i + 1, edgeSet, radius,
                                [excluded |-> Insert(acc.excluded, pixels[i].angle, radius),
                                 drawn |-> Append(Append(acc.drawn, pixels[i].pixel),
                                                  pixels[i].pixel)])
         ELSE ScanPixelsNoBreak(pixels, i + 1, edgeSet, radius, acc)

\* circle_render lines 190-199 from the i-th pair of `pixels` on: a pixel near
\* an edge is pushed to drawn_pixels and its angle inserted with scan_radius
RECURSIVE ScanPixels(_, _, _, _, _)
ScanPixels(pixels, i, edgeSet, radius, acc) ==
    IF i > Len(pixels) THEN acc
    ELSE IF EdgeHit(edgeSet, pixels[i].pixel)
         THEN ScanPixels(pixels, i + 1, edgeSet, radius,
                         [excluded |-> Insert(acc.excluded, pixels[i].angle, radius),
                          drawn |-> Append(acc.drawn, pixels[i].pixel)])
         ELSE ScanPixels(pixels, i + 1, edgeSet, radius, acc)

\* the radii of (SHIP_SIZE..screen_width()).step_by(SCAN_SPEED)
InRange(radius) == radius < screen_width
FirstRadius == SHIP_SIZE
\* the range without step_by
NextRadiusUnit(radius) == radius + 1
NextRadius(radius) == radius + SCAN_SPEED

(***************************************************************************)
(* Level.                                                                  *)
(***************************************************************************)
\* lines 241-256 with the D test lacking `ship.x <= screen_width() - SHIP_SIZE`
MoveUnclamped(shipAt, down) ==
    LET y1 == IF "W" \in down /\ shipAt.y >= SHIP_SIZE THEN shipAt.y - 1 ELSE shipAt.y
        y2 == IF "S" \in down /\ y1 <= screen_height - SHIP_SIZE THEN y1 + 1 ELSE y1
        x1 == IF "A" \in down /\ shipAt.x >= SHIP_SIZE THEN shipAt.x - 1 ELSE shipAt.x
        x2 == IF "D" \in down THEN x1 + 1 ELSE x1
    IN  Point(x2, y2)

\* play_level lines 241-256: the four movement tests, in order
Move(shipAt, down) ==
    LET y1 == IF "W" \in down /\ shipAt.y >= SHIP_SIZE THEN shipAt.y - 1 ELSE shipAt.y
        y2 == IF "S" \in down /\ y1 <= screen_height - SHIP_SIZE THEN y1 + 1 ELSE y1
        x1 == IF "A" \in down /\ shipAt.x >= SHIP_SIZE THEN shipAt.x - 1 ELSE shipAt.x
        x2 == IF "D" \in down /\ x1 <= screen_width - SHIP_SIZE THEN x1 + 1 ELSE x1
    IN  Point(x2, y2)

\* play_level lines 258-264: some edge of some asteroid is near the ship
Collides(asts, shipAt) ==
    \E a \in {asts[j] : j \in 1..Len(asts)} : NearShip(a, shipAt)

\* play_level line 265: ship.distance(destination) <= SHIP_SIZE + DST_SIZE
Reached(shipAt, dest) ==
    (shipAt.x - dest.x) * (shipAt.x - dest.x) + (shipAt.y - dest.y) * (shipAt.y - dest.y)
        <= (SHIP_SIZE + DST_SIZE) * (SHIP_SIZE + DST_SIZE)

\* lines 257-268 with the destination test before the asteroid test
OutcomeWonFirst(asts, shipAt, dest) ==
    IF Reached(shipAt, dest) THEN "won"
    ELSE IF Collides(asts, shipAt) THEN "lost"
    ELSE "frame"

\* play_level lines 257-268: where the frame ends
Outcome(asts, shipAt, dest) ==
    IF Collides(asts, shipAt) THEN "lost"
    ELSE IF Reached(shipAt, dest) THEN "won"
    ELSE "frame"

\* play_level line 211: 12 - (level / 3) in usize, when it does not overflow
Overflows(lvl) == lvl \div 3 > INITIAL_SCANS
WrappedScans(lvl) == (INITIAL_SCANS - lvl \div 3) % UsizeModulus

\* the ship's spawn point: the screen centre (play_level line 212)
Spawn == Point(screen_width \div 2, screen_height \div 2)

\* the loop's iteration skipping lines 190-199 in a frame before which a
\* movement key went down and up
SweepIterationTapped(edgeSet, center, radius, excluded, drawn, keys) ==
    IF interrupted_by_movement(keys)
    THEN [interrupted |-> TRUE, excluded |-> excluded, drawn |-> drawn, sampled |-> {}]
    ELSE IF keys.tapped
    THEN [interrupted |-> FALSE, excluded |-> excluded, drawn |-> drawn, sampled |-> {}]
    ELSE LET pixels == pixels_in_circle(center, radius, excluded)
             r == ScanPixels(pixels, 1, edgeSet, radius,
                             [excluded |-> excluded, drawn |-> drawn])
         IN  [interrupted |-> FALSE, excluded |-> r.excluded, drawn |-> r.drawn,
              sampled |-> {pixels[i].angle : i \in 1..Len(pixels)}]

\* the loop's iteration with the interrupt test after the sampling
SweepIterationLate(edgeSet, center, radius, excluded, drawn, keys) ==
    LET pixels == pixels_in_circle(center, radius, excluded)
        r == ScanPixels(pixels, 1, edgeSet, radius, [excluded |-> excluded, drawn |-> drawn])
    IN  [interrupted |-> interrupted_by_movement(keys),
         excluded |-> r.excluded, drawn |-> r.drawn,
         sampled |-> {pixels[i].angle : i \in 1..Len(pixels)}]

(***************************************************************************)
(* One iteration of circle_render's loop (lines 185-206) at `radius`, with *)
(* the movement keys `down` held: what it leaves in the map and the list,  *)
(* the angles it sampled, and whether it broke out of the loop.            *)
(***************************************************************************)
SweepIteration(edgeSet, center, radius, excluded, drawn, keys) ==
    IF interrupted_by_movement(keys)
    THEN [interrupted |-> TRUE, excluded |-> excluded, drawn |-> drawn, sampled |-> {}]
    ELSE LET pixels == pixels_in_circle(center, radius, excluded)
             r == ScanPixels(pixels, 1, edgeSet, radius,
                             [excluded |-> excluded, drawn |-> drawn])
         IN  [interrupted |-> FALSE, excluded |-> r.excluded, drawn |-> r.drawn,
              sampled |-> {pixels[i].angle : i \in 1..Len(pixels)}]

\* no movement key is down, and none was tapped
NoKeys == [down |-> {}, tapped |-> FALSE]

(***************************************************************************)
(* circle_render (lines 181-207) run from `radius` to the end of its range *)
(* with no movement key touched: the map and the list of its last frame.   *)
(* The map is read by contains_key (line 134) and by the iteration that    *)
(* draws the gaps (line 156), which writes nothing back.                   *)
(***************************************************************************)
RECURSIVE SweepResult(_, _, _, _, _)
SweepResult(edgeSet, center, radius, excluded, drawn) ==
    IF ~InRange(radius) THEN [excluded |-> excluded, drawn |-> drawn]
    ELSE LET it == SweepIteration(edgeSet, center, radius, excluded, drawn, NoKeys)
         IN  SweepResult(edgeSet, center, NextRadius(radius), it.excluded, it.drawn)

(***************************************************************************)
(* Initial state: main has called play_game, whose loop is about to call   *)
(* play_level(1).                                                          *)
(***************************************************************************)
\* no function is called on its own
NoCall == [fn |-> "none"]
NoRet == [panicked |-> FALSE]

\* the program's variables before play_level's first call
Fresh ==
    /\ level = 1
    /\ win = TRUE
    /\ scans = 0
    /\ ship = Spawn
    /\ destination = Spawn
    /\ asteroids = <<>>
    /\ depth = 0
    /\ scan_radius = 0
    /\ excluded_angles = EmptyMap
    /\ drawn_pixels = <<>>
    /\ sampled = {}
    /\ play_again = TRUE
    /\ sweepFrames = 0
    /\ sweepChecks = 0
    /\ checkDown = FALSE
    /\ checkTapped = FALSE
    /\ sweepEnd = "none"
    /\ endClean = TRUE
    /\ sweepsStarted = 0
    /\ initScans = 0
    /\ levelsWon = 0
    /\ levelsLost = 0
    /\ promptShown = FALSE
    /\ keysYN = {}

Init ==
    /\ pc = "level_init"
    /\ Fresh
    /\ call = NoCall
    /\ ret = NoRet

\* no sweep is running, and none has just returned
SweepIdle ==
    /\ scan_radius' = 0
    /\ excluded_angles' = EmptyMap
    /\ drawn_pixels' = <<>>
    /\ sampled' = {}
    /\ sweepFrames' = 0
    /\ sweepChecks' = 0
    /\ checkDown' = FALSE
    /\ checkTapped' = FALSE
    /\ sweepEnd' = "none"
    /\ endClean' = TRUE

\* play_level's locals are gone
LevelIdle ==
    /\ scans' = 0
    /\ ship' = Spawn
    /\ destination' = Spawn
    /\ asteroids' = <<>>
    /\ depth' = 0
    /\ sweepsStarted' = 0
    /\ initScans' = 0

(***************************************************************************)
(* play_level lines 211-218.  `12 - (level / 3)` is a usize subtraction:   *)
(* when it overflows, a build with overflow checks panics and a build      *)
(* without them wraps.                                                     *)
(***************************************************************************)
LevelInit ==
    /\ pc = "level_init"
    /\ \/ /\ Overflows(level)
          /\ pc' = "panicked"
          /\ UNCHANGED <<levelVars, gameVars, sweepVars>>
       \/ /\ pc' = "gen"
          /\ scans' = WrappedScans(level)
          /\ initScans' = WrappedScans(level)
          /\ ship' = Spawn
          /\ \E d \in Destinations : destination' = d
          /\ asteroids' = <<>>
          /\ depth' = 0
          /\ sweepsStarted' = 0
          /\ UNCHANGED <<gameVars, sweepVars>>
    /\ UNCHANGED callVars

(***************************************************************************)
(* random_asteroid, called from play_level's loop (lines 219-222): the     *)
(* candidate has an edge near the ship, and the function calls itself.     *)
(***************************************************************************)
RejectAsteroid ==
    /\ pc = "gen"
    /\ Len(asteroids) < NUM_ASTEROIDS + level
    /\ depth < MaxDepth
    /\ \E c \in Candidates : ~EdgesPanic(c) /\ NearShip(c, ship)
    /\ depth' = depth + 1
    /\ UNCHANGED <<pc, scans, ship, destination, asteroids, sweepsStarted, initScans,
                   gameVars, sweepVars>>
    /\ UNCHANGED callVars

\* random_asteroid returning its candidate without the test of lines 87-91
AcceptAsteroidUntested ==
    /\ pc = "gen"
    /\ Len(asteroids) < NUM_ASTEROIDS + level
    /\ \E c \in Candidates :
          IF EdgesPanic(c)
          THEN /\ pc' = "panicked"
               /\ UNCHANGED <<asteroids, depth>>
          ELSE /\ asteroids' = Append(asteroids, c)
               /\ depth' = 0
               /\ pc' = IF Len(asteroids) + 1 = NUM_ASTEROIDS + level THEN "play" ELSE "gen"
    /\ UNCHANGED <<scans, ship, destination, sweepsStarted, initScans, gameVars, sweepVars>>
    /\ UNCHANGED callVars

(***************************************************************************)
(* random_asteroid returns its candidate (or panics in Line::new), and     *)
(* play_level pushes it; after the last one the level's first frame runs.  *)
(***************************************************************************)
AcceptAsteroid ==
    /\ pc = "gen"
    /\ Len(asteroids) < NUM_ASTEROIDS + level
    /\ \E c \in Candidates :
          IF EdgesPanic(c)
          THEN /\ pc' = "panicked"
               /\ UNCHANGED <<asteroids, depth>>
          ELSE /\ ~NearShip(c, ship)
               /\ asteroids' = Append(asteroids, c)
               /\ depth' = 0
               /\ pc' = IF Len(asteroids) + 1 = NUM_ASTEROIDS + level THEN "play" ELSE "gen"
    /\ UNCHANGED <<scans, ship, destination, sweepsStarted, initScans, gameVars, sweepVars>>
    /\ UNCHANGED callVars

\* play_level lines 233-234: Space was pressed and the budget is not zero
ScanPressed(space, budget) == space /\ budget # 0

\* line 237 left out: the budget is not spent
SpendScanNot(budget) == budget

\* play_level line 237: scans -= 1
SpendScan(budget) == budget - 1

\* lines 275-278 without `win = false`
WinAfterKept(w, result) == w

\* play_game lines 275-278: win after play_level returned `result`
WinAfter(w, result) == IF result THEN w ELSE FALSE

\* play_game line 274: the range 1..50 has a level after `lvl`
MoreLevels(lvl) == lvl < LAST_LEVEL

\* play_level lines 241-268 with the movement keys `down`
FinishFrame(down) ==
    LET moved == Move(ship, down)
    IN  /\ ship' = moved
        /\ pc' = Outcome(asteroids, moved, destination)

\* circle_render returns: its locals are dropped; `how` says whether its
\* loop ran out of radii or broke, `clean` whether the last iteration left the
\* map and the list as they were
SweepReturns(how, clean, frames, checks, keyDown) ==
    /\ sweepEnd' = how
    /\ endClean' = clean
    /\ sweepFrames' = frames
    /\ sweepChecks' = checks
    /\ checkDown' = keyDown
    /\ checkTapped' = checkTapped
    /\ scan_radius' = 0
    /\ excluded_angles' = EmptyMap
    /\ drawn_pixels' = <<>>
    /\ sampled' = {}

\* the yield at line 206 with a tapped D key moving the ship during the sweep
SweepYieldsMoving(it, radius, frames, checks, keys) ==
    /\ sweepEnd' = "none"
    /\ endClean' = TRUE
    /\ sweepFrames' = frames
    /\ sweepChecks' = checks
    /\ checkDown' = (keys.down # {})
    /\ checkTapped' = (checkTapped \/ keys.tapped)
    /\ scan_radius' = radius
    /\ excluded_angles' = it.excluded
    /\ drawn_pixels' = it.drawn
    /\ sampled' = it.sampled
    /\ pc' = "sweep"
    /\ ship' = Move(ship, IF keys.tapped THEN {"D"} ELSE {})

\* circle_render yields at line 206 after rendering a frame at `radius`
SweepYields(it, radius, frames, checks, keys) ==
    /\ sweepEnd' = "none"
    /\ endClean' = TRUE
    /\ sweepFrames' = frames
    /\ sweepChecks' = checks
    /\ checkDown' = (keys.down # {})
    /\ checkTapped' = (checkTapped \/ keys.tapped)
    /\ scan_radius' = radius
    /\ excluded_angles' = it.excluded
    /\ drawn_pixels' = it.drawn
    /\ sampled' = it.sampled
    /\ pc' = "sweep"
    /\ ship' = ship

(***************************************************************************)
(* One iteration of play_level's loop (lines 229-268), up to the next      *)
(* next_frame().await in play_level or, when a sweep starts and renders    *)
(* its first frame, in circle_render.  Inputs: Space was pressed in this   *)
(* frame, the movement keys that are down, and whether a movement key went *)
(* down and up again since the last frame.                                 *)
(***************************************************************************)
LevelFrame ==
    /\ pc \in {"play", "frame"}
    /\ \E space \in BOOLEAN, keys \in KeyStates :
          IF ScanPressed(space, scans)
          THEN /\ sweepsStarted < MaxSweeps
               /\ scans' = SpendScan(scans)
               /\ sweepsStarted' = sweepsStarted + 1
               /\ IF InRange(FirstRadius)
                  THEN LET it == SweepIteration(EdgeSet(asteroids), ship, FirstRadius,
                                                NewMap, NewList, keys)
                       IN  IF it.interrupted
                           THEN /\ SweepReturns("interrupted",
                                                it.excluded = NewMap /\ it.drawn = NewList
                                                    /\ it.sampled = {},
                                                0, 1, keys.down # {})
                                /\ FinishFrame(keys.down)
                           ELSE SweepYields(it, FirstRadius, 1, 1, keys)
                  ELSE /\ SweepReturns("completed", TRUE, 0, 0, FALSE)
                       /\ FinishFrame(keys.down)
          ELSE /\ ~keys.tapped
               /\ SweepIdle
               /\ FinishFrame(keys.down)
               /\ UNCHANGED <<scans, sweepsStarted>>
    /\ UNCHANGED <<destination, asteroids, depth, initScans, gameVars>>
    /\ UNCHANGED callVars

(***************************************************************************)
(* circle_render resumes from line 206: the loop takes its next radius;    *)
(* when there is none, or a movement key is down, circle_render returns    *)
(* and play_level's frame goes on (lines 241-268) with the same keys.      *)
(***************************************************************************)
SweepFrame ==
    /\ pc = "sweep"
    /\ \E keys \in KeyStates :
          IF InRange(NextRadius(scan_radius))
          THEN LET it == SweepIteration(EdgeSet(asteroids), ship, NextRadius(scan_radius),
                                        excluded_angles, drawn_pixels, keys)
               IN  IF it.interrupted
                   THEN /\ SweepReturns("interrupted",
                                        it.excluded = excluded_angles
                                            /\ it.drawn = drawn_pixels /\ it.sampled = {},
                                        sweepFrames, sweepChecks + 1, keys.down # {})
                        /\ FinishFrame(keys.down)
                   ELSE SweepYields(it, NextRadius(scan_radius), sweepFrames + 1,
                                    sweepChecks + 1, keys)
          ELSE /\ ~keys.tapped
               /\ SweepReturns("completed", TRUE, sweepFrames, sweepChecks, FALSE)
               /\ FinishFrame(keys.down)
    /\ UNCHANGED <<scans, destination, asteroids, depth, sweepsStarted, initScans, gameVars>>
    /\ UNCHANGED callVars

(***************************************************************************)
(* play_game lines 274-280: play_level has returned.  false: win is set to *)
(* false and the loop is left.  true: the game yields a frame and goes to  *)
(* the next level, or leaves the loop after level 49.                      *)
(***************************************************************************)
LevelReturn ==
    /\ pc \in {"won", "lost"}
    /\ win' = WinAfter(win, pc = "won")
    /\ IF pc = "lost"
       THEN /\ levelsLost' = levelsLost + 1
            /\ pc' = "prompt"
            /\ UNCHANGED <<level, levelsWon>>
       ELSE /\ levelsWon' = levelsWon + 1
            /\ levelsLost' = levelsLost
            /\ IF MoreLevels(level)
               THEN level' = level + 1 /\ pc' = "level_init"
               ELSE level' = level /\ pc' = "prompt"
    /\ LevelIdle
    /\ SweepIdle
    /\ UNCHANGED <<promptShown, keysYN, play_again>>
    /\ UNCHANGED callVars

(***************************************************************************)
(* play_game lines 281-313: one test of the while condition.  Neither Y    *)
(* nor N was pressed in this frame: the prompt is drawn and the game       *)
(* yields.  Otherwise play_game returns (win, play_again).                 *)
(***************************************************************************)
PromptCheck ==
    /\ pc = "prompt"
    /\ \E keys \in SUBSET {"Y", "N"} :
          /\ keysYN' = keys
          /\ IF "Y" \notin keys /\ "N" \notin keys
             THEN /\ promptShown' = TRUE
                  /\ pc' = "prompt"
                  /\ play_again' = play_again
             ELSE /\ play_again' = ("N" \notin keys)
                  /\ pc' = "returned"
                  /\ promptShown' = promptShown
    /\ UNCHANGED <<level, win, levelsWon, levelsLost, levelVars, sweepVars>>
    /\ UNCHANGED callVars

(***************************************************************************)
(* main lines 318-323: play_game has returned; the loop breaks or calls    *)
(* play_game again.                                                        *)
(***************************************************************************)
MainLoop ==
    /\ pc = "returned"
    /\ IF ~play_again
       THEN /\ pc' = "exited"
            /\ UNCHANGED gameVars
       ELSE /\ pc' = "level_init"
            /\ level' = 1
            /\ win' = TRUE
            /\ levelsWon' = 0
            /\ levelsLost' = 0
            /\ promptShown' = FALSE
            /\ keysYN' = {}
            /\ play_again' = TRUE
    /\ UNCHANGED <<levelVars, sweepVars>>
    /\ UNCHANGED callVars

Next ==
    \/ LevelInit
    \/ RejectAsteroid
    \/ AcceptAsteroid
    \/ LevelFrame
    \/ SweepFrame
    \/ LevelReturn
    \/ PromptCheck
    \/ MainLoop

Spec == Init /\ [][Next]_vars

(***************************************************************************)
(* macroquad resumes the coroutine suspended in next_frame().await (line   *)
(* 206) once per frame of its event loop: a sweep that is waiting for its  *)
(* next frame gets it.  While pc = "sweep" the only step of Next is        *)
(* SweepFrame, and every SweepFrame step makes one more check, so that     *)
(* SweepResumed is the SweepFrame step seen through pc and sweepChecks.    *)
(***************************************************************************)
SweepResumed == pc = "sweep" /\ sweepChecks' = sweepChecks + 1

FairSpec == Spec /\ WF_sweepChecks(SweepResumed)

(***************************************************************************)
(* thread_rng draws the candidates of random_asteroid (lines 78-86)        *)
(* independently and from the same ranges every time: a candidate that the *)
(* test of lines 87-91 lets through, if there is one, is drawn sooner or   *)
(* later.  The ship is at its spawn point while the asteroids are made,    *)
(* and Candidates holds an asteroid that passes the test there, so that    *)
(* AsteroidReturned, the AcceptAsteroid step seen through pc and           *)
(* asteroids, is enabled throughout every call.                            *)
(***************************************************************************)
Passes(c, shipAt) == ~EdgesPanic(c) /\ ~NearShip(c, shipAt)

AsteroidReturned ==
    /\ pc = "gen"
    /\ \E c \in Candidates : asteroids' = Append(asteroids, c)

GenSpec == Spec /\ WF_asteroids(AsteroidReturned)

(***************************************************************************)
(* Line::new, Line::near and Asteroid::edges called on their own, on       *)
(* arguments from bounded sets: one call per behaviour.                    *)
(***************************************************************************)
Points == { Point(px, py) : px \in 0..MaxCoord, py \in 0..MaxCoord }

\* the segments Line::new returns
Lines ==
    { LineNew(ends[1], ends[2]) :
        ends \in {pq \in Points \X Points : ~LinePanics(pq[1], pq[2])} }

\* tolerances in tenths: 0, CLOSENESS_TOLERANCE, 1 and SHIP_SIZE
Tolerances == {0, CLOSENESS_TOLERANCE_TENTHS, 10, 10 * SHIP_SIZE}

\* values of the struct Asteroid: sides is a u8, radius and rotation are f32;
\* random_asteroid draws those with MIN_SIDES..MAX_SIDES sides and a radius
\* of MIN_RADIUS or more
Shapes ==
    [pos : {Point(0, 0), Point(MaxCoord, MaxCoord)}, sides : 0..MAX_SIDES,
     radius : {0, MIN_RADIUS, MIN_RADIUS + MaxCoord}, rotation : {0, PI_MILLI \div 6}]

Drawn(asteroid) == asteroid.sides >= MIN_SIDES /\ asteroid.radius >= MIN_RADIUS

CallInit ==
    /\ pc = "called"
    /\ Fresh
    /\ ret = NoRet
    /\ \/ call \in [fn : {"new"}, a : Points, b : Points]
       \/ call \in [fn : {"near"}, line : Lines, point : Points, tolerance : Tolerances]
       \/ call \in [fn : {"edges"}, asteroid : Shapes]

\* Line::new(a, b)
CallLineNew ==
    /\ pc = "called"
    /\ call.fn = "new"
    /\ ret' = IF LinePanics(call.a, call.b)
              THEN [panicked |-> TRUE]
              ELSE [panicked |-> FALSE, value |-> LineNew(call.a, call.b)]
    /\ pc' = "done"
    /\ UNCHANGED <<call, gameVars, levelVars, sweepVars>>

\* line.near(point, tolerance)
CallNear ==
    /\ pc = "called"
    /\ call.fn = "near"
    /\ ret' = [panicked |-> FALSE, value |-> near(call.line, call.point, call.tolerance)]
    /\ pc' = "done"
    /\ UNCHANGED <<call, gameVars, levelVars, sweepVars>>

\* asteroid.edges()
CallEdges ==
    /\ pc = "called"
    /\ call.fn = "edges"
    /\ ret' = IF EdgesPanic(call.asteroid)
              THEN [panicked |-> TRUE]
              ELSE [panicked |-> FALSE, value |-> edges(call.asteroid)]
    /\ pc' = "done"
    /\ UNCHANGED <<call, gameVars, levelVars, sweepVars>>

CallNext ==
    \/ CallLineNew
    \/ CallNear
    \/ CallEdges

CallSpec == CallInit /\ [][CallNext]_vars

(***************************************************************************)
(* Properties.                                                             *)
(***************************************************************************)

\* C1: within one sweep an entry of the exclusion map, once inserted, stays:
\* from one frame of the sweep to the next every key is still present with
\* the radius it was inserted with, and the later frame does not sample it.
C1_ExcludedOnce ==
    [][ (pc = "sweep" /\ pc' = "sweep") =>
            \A a \in DOMAIN excluded_angles :
                /\ a \in DOMAIN excluded_angles'
                /\ excluded_angles'[a] = excluded_angles[a]
                /\ a \notin sampled' ]_vars

\* C1 witness: a later frame of a sweep holds an angle that an earlier frame
\* excluded, and did not sample it, while it excluded another angle itself.
C1_Witness ==
    /\ pc = "sweep"
    /\ \E a \in DOMAIN excluded_angles :
          excluded_angles[a] < scan_radius /\ a \notin sampled
    /\ \E b \in DOMAIN excluded_angles : excluded_angles[b] = scan_radius

\* play_level is running: its locals exist
LevelRunning == pc \in {"gen", "play", "frame", "sweep", "won", "lost"}

\* C2: in a level every sweep started has cost exactly one unit of budget and
\* the budget is never negative, so no more sweeps start than the initial
\* budget; a step of the level either leaves budget and sweep count alone or,
\* with a positive budget, takes one unit and starts one sweep.
C2_ScanBudget ==
    /\ [](LevelRunning =>
            /\ scans >= 0
            /\ sweepsStarted <= initScans
            /\ scans + sweepsStarted = initScans)
    /\ [][ (LevelRunning /\ LevelRunning') =>
              \/ scans' = scans /\ sweepsStarted' = sweepsStarted
              \/ scans > 0 /\ scans' = scans - 1 /\ sweepsStarted' = sweepsStarted + 1 ]_vars

\* C2 witness: a level whose positive budget has been used up by its sweeps,
\* the last of them interrupted at its first check.
C2_Witness ==
    /\ pc = "frame"
    /\ initScans > 0
    /\ scans = 0
    /\ sweepsStarted = initScans
    /\ sweepEnd = "interrupted"
    /\ sweepFrames = 0

\* C3: a frame of a level ends Lost exactly when an edge is near the ship,
\* Won exactly when none is and the ship is within SHIP_SIZE + DST_SIZE of
\* the destination, and goes on otherwise; after Won or Lost the level takes
\* no further step: play_level returns.
C3_Outcome ==
    /\ [](/\ pc = "lost" => Collides(asteroids, ship)
          /\ pc = "won" => ~Collides(asteroids, ship) /\ Reached(ship, destination)
          /\ pc = "frame" => ~Collides(asteroids, ship) /\ ~Reached(ship, destination))
    /\ [][ (pc \in {"won", "lost"}) => (pc' \in {"prompt", "level_init"}) ]_vars

\* C3 witness: a frame ended with an edge near the ship and the ship within
\* reach of the destination, and the level is Lost.
C3_Witness ==
    /\ pc = "lost"
    /\ Collides(asteroids, ship)
    /\ Reached(ship, destination)

\* the distance from `point` to the segment `line` is at most `t`
WithinDistance(line, point, t) ==
    LET dx == line.b.x - line.a.x
        dy == line.b.y - line.a.y
        px == point.x - line.a.x
        py == point.y - line.a.y
        qx == point.x - line.b.x
        qy == point.y - line.b.y
        dot == px * dx + py * dy
        len2 == dx * dx + dy * dy
        cross == py * dx - px * dy
    IN  IF dot < 0 THEN px * px + py * py <= t * t
        ELSE IF dot > len2 THEN qx * qx + qy * qy <= t * t
        ELSE cross * cross <= t * t * len2

\* the ship's centre is within SHIP_SIZE of some asteroid edge
Touches(asts, shipAt) ==
    \E e \in EdgeSet(asts) : WithinDistance(e, shipAt, SHIP_SIZE)

\* C4: when a frame's movement leaves the ship's centre within SHIP_SIZE of
\* a point of some asteroid edge, the frame ends Lost.
C4_TouchIsLost ==
    pc \in {"frame", "won"} => ~Touches(asteroids, ship)

\* C5: the initial scan budget of every level played is 12 - floor(level / 3),
\* a number that is not negative; computing it does not fail.
C5_InitialBudget ==
    /\ pc # "panicked"
    /\ LevelRunning =>
          /\ initScans = INITIAL_SCANS - level \div 3
          /\ initScans >= 0

\* C6: while a level is played, it is the level after those won, no level of
\* the game has been lost and win is still true; once the levels are over,
\* the result is win exactly when all of 1..49 were won, and lose exactly
\* when one was lost.
C6_LevelOrder ==
    /\ pc \in {"level_init", "gen", "play", "frame", "sweep", "won", "lost"} =>
          /\ level = levelsWon + 1
          /\ levelsLost = 0
          /\ win
    /\ pc \in {"prompt", "returned", "exited"} =>
          /\ win <=> levelsWon = LAST_LEVEL
          /\ ~win <=> levelsLost = 1
          /\ levelsLost = 0 => level = LAST_LEVEL
          /\ levelsLost = 1 => level = levelsWon + 1

\* C6 witness: the prompt of a game that won all 49 levels.
C6_Witness ==
    /\ pc = "prompt"
    /\ win
    /\ levelsWon = LAST_LEVEL
    /\ levelsLost = 0

\* C7: when play_game returns its replay decision, the prompt has been drawn
\* in at least one frame of that game.
C7_PromptShown ==
    pc = "returned" => promptShown

\* C8: the prompt is left only in a frame in which Y or N is pressed, the
\* decision is to stop exactly when N is pressed in it, and the program stops
\* only by that decision.
C8_ExitOnlyByNo ==
    /\ pc = "returned" => keysYN # {} /\ (play_again <=> "N" \notin keysYN)
    /\ pc \in {"exited", "panicked"} => pc = "exited" /\ "N" \in keysYN

\* the frames a sweep can render: ceil((width - SHIP_SIZE) / SCAN_SPEED)
MaxSweepFrames == (screen_width - SHIP_SIZE + SCAN_SPEED - 1) \div SCAN_SPEED

\* C9: the n-th frame of a sweep has radius SHIP_SIZE + (n - 1) * SCAN_SPEED,
\* below the screen width, and n is at most ceil((width - SHIP_SIZE) /
\* SCAN_SPEED); a sweep in progress comes to an end, and each of its steps
\* renders the next radius, or ends the sweep on a movement key found down
\* by its check, or ends it because the next radius is not below the width.
C9_SweepTerminates ==
    /\ [](pc = "sweep" =>
            /\ sweepFrames >= 1
            /\ scan_radius = SHIP_SIZE + (sweepFrames - 1) * SCAN_SPEED
            /\ scan_radius < screen_width
            /\ sweepFrames <= MaxSweepFrames)
    /\ (pc = "sweep") ~> (pc # "sweep")
    /\ [][ (pc = "sweep") =>
              \/ /\ pc' = "sweep"
                 /\ scan_radius' = scan_radius + SCAN_SPEED
                 /\ sweepFrames' = sweepFrames + 1
                 /\ ~checkDown'
              \/ /\ pc' # "sweep"
                 /\ sweepEnd' = "interrupted"
                 /\ checkDown'
                 /\ sweepFrames' = sweepFrames
              \/ /\ pc' # "sweep"
                 /\ sweepEnd' = "completed"
                 /\ scan_radius + SCAN_SPEED >= screen_width
                 /\ sweepFrames' = sweepFrames ]_vars

\* C9 witness: a sweep has run out of radii after the most frames it can render.
C9_Witness ==
    /\ sweepEnd = "completed"
    /\ sweepFrames = MaxSweepFrames

\* C10: a sweep makes one check per frame it renders, each finding no
\* movement key down, whatever was tapped in between; a sweep that was
\* interrupted made one check more, which found a movement key down, and
\* that last iteration sampled nothing and left the map and the list alone.
C10_CheckPerFrame ==
    /\ pc = "sweep" => sweepChecks = sweepFrames /\ ~checkDown
    /\ sweepEnd = "interrupted" =>
          checkDown /\ endClean /\ sweepChecks = sweepFrames + 1
    /\ sweepEnd = "completed" => sweepChecks = sweepFrames /\ ~checkDown

\* C10 witness: a sweep rendered a frame, a movement key having gone down and
\* up before one of its checks, and was interrupted by the check after.
C10_Witness ==
    /\ sweepEnd = "interrupted"
    /\ sweepFrames >= 1
    /\ checkTapped
    /\ checkDown
    /\ endClean

\* C11: the ship is always on the screen, 0 <= x <= width and 0 <= y <=
\* height, and a frame of a level changes each coordinate by at most 1.
C11_ShipOnScreen ==
    /\ [](/\ 0 <= ship.x /\ ship.x <= screen_width
          /\ 0 <= ship.y /\ ship.y <= screen_height)
    /\ [][ (pc \in {"play", "frame", "sweep"}) =>
              /\ Abs(ship'.x - ship.x) <= 1
              /\ Abs(ship'.y - ship.y) <= 1 ]_vars

\* C11 witness: the level goes on with the ship as far up as the W test lets
\* it go, one step beyond the row where the test starts to fail.
C11_Witness ==
    /\ pc = "frame"
    /\ ship.y = SHIP_SIZE - 1
    /\ screen_height >= 2 * SHIP_SIZE
    /\ screen_width >= 2 * SHIP_SIZE

\* C12: Line::new of two identical endpoints panics and returns no segment,
\* Line::new of two distinct endpoints returns the segment of those
\* endpoints, and every segment that Line::new or edges() returned has
\* distinct endpoints.
C12_NoPointSegment ==
    /\ (pc = "done" /\ call.fn = "new") =>
          /\ ret.panicked <=> call.a = call.b
          /\ ~ret.panicked => /\ ret.value.a = call.a
                              /\ ret.value.b = call.b
                              /\ ret.value.a # ret.value.b
    /\ (pc = "done" /\ call.fn = "edges" /\ ~ret.panicked) =>
          \A i \in 1..Len(ret.value) : ret.value[i].a # ret.value[i].b

\* C12 witness: a call of Line::new with twice the same point has panicked.
C12_Witness ==
    /\ pc = "done"
    /\ call.fn = "new"
    /\ call.a = call.b
    /\ ret.panicked

\* cross(p - a, b - a), (p - a).(b - a) and |b - a|^2 of a segment and a point
Cross(line, p) ==
    (p.y - line.a.y) * (line.b.x - line.a.x) - (p.x - line.a.x) * (line.b.y - line.a.y)
Dot(line, p) ==
    (p.x - line.a.x) * (line.b.x - line.a.x) + (p.y - line.a.y) * (line.b.y - line.a.y)
SquaredLength(line) ==
    (line.b.x - line.a.x) * (line.b.x - line.a.x)
        + (line.b.y - line.a.y) * (line.b.y - line.a.y)

\* C13: near(p, t) is true exactly when |cross(p - a, b - a)| <= t, the dot
\* product (p - a).(b - a) is not negative and it is at most the squared
\* length of the segment (t in tenths).
C13_NearExact ==
    (pc = "done" /\ call.fn = "near") =>
        (ret.value <=>
            /\ 10 * Abs(Cross(call.line, call.point)) <= call.tolerance
            /\ Dot(call.line, call.point) >= 0
            /\ Dot(call.line, call.point) <= SquaredLength(call.line))

\* C14: edges() of an asteroid with n sides that random_asteroid can draw
\* returns, and what edges() returns is n segments, the i-th from vertex i to
\* vertex (i + 1) mod n: each segment ends where the next starts, and the
\* last ends where the first starts.
C14_ClosedCycle ==
    (pc = "done" /\ call.fn = "edges") =>
        LET n == call.asteroid.sides
            vs == vertices(call.asteroid)
        IN  /\ Drawn(call.asteroid) => ~ret.panicked
            /\ ~ret.panicked =>
                  /\ Len(ret.value) = n
                  /\ \A i \in 1..Len(ret.value) :
                        /\ ret.value[i].a = vs[i]
                        /\ ret.value[i].b = vs[(i % n) + 1]
                        /\ ret.value[i].b = ret.value[(i % Len(ret.value)) + 1].a

\* C14 witness: edges() has returned the edges of a heptagon of the smallest
\* radius, and the seventh ends at the first vertex.
C14_Witness ==
    /\ pc = "done"
    /\ call.fn = "edges"
    /\ call.asteroid.sides = MAX_SIDES
    /\ call.asteroid.radius = MIN_RADIUS
    /\ ~ret.panicked
    /\ Len(ret.value) = MAX_SIDES
    /\ ret.value[MAX_SIDES].b = ret.value[1].a

\* C15: no asteroid of the level has an edge that is near the ship's spawn
\* point with tolerance SHIP_SIZE, and a frame that leaves the ship at its
\* spawn point is not Lost.
C15_SpawnIsSafe ==
    /\ \A a \in {asteroids[j] : j \in 1..Len(asteroids)} : ~NearShip(a, Spawn)
    /\ pc = "lost" => ship # Spawn

\* C15 witness: the level goes on with the ship at its spawn point, while
\* the generator's test has turned a candidate down and the level's
\* asteroids have an edge closer to the spawn point than SHIP_SIZE.
C15_Witness ==
    /\ pc = "frame"
    /\ ship = Spawn
    /\ Len(asteroids) = NUM_ASTEROIDS + level
    /\ Touches(asteroids, Spawn)
    /\ \E c \in Candidates : NearShip(c, Spawn)

\* C16: while asteroids are made some candidate passes the test; a call of
\* random_asteroid that has turned candidates down returns, the loop that
\* calls it (lines 219-222) comes to its end, and a step of random_asteroid
\* is a recursive call or the return of an asteroid, never an error.
C16_GeneratorReturns ==
    /\ [](pc = "gen" => \E c \in Candidates : Passes(c, ship))
    /\ (pc = "gen" /\ depth > 0) ~> (depth = 0)
    /\ (pc = "gen") ~> (pc = "play")
    /\ [][ (pc = "gen") =>
              \/ pc' = "gen" /\ depth' = depth + 1 /\ asteroids' = asteroids
              \/ /\ pc' \in {"gen", "play"}
                 /\ depth' = 0
                 /\ Len(asteroids') = Len(asteroids) + 1 ]_vars

\* C16 witness: random_asteroid has returned asteroids and is now in a
\* call that has turned down as many candidates as the model lets it, while
\* some candidate would pass.
C16_Witness ==
    /\ pc = "gen"
    /\ depth = MaxDepth
    /\ Len(asteroids) >= 1
    /\ \E c \in Candidates : Passes(c, ship)

\* the sweep is showing the last frame of its range
LastFrame == pc = "sweep" /\ ~InRange(NextRadius(scan_radius))

AllAngles == {SampleAngles[i] : i \in 1..Len(SampleAngles)}

\* C18: the first frame of every sweep samples every angle, and what the map
\* and the list hold at its end was recorded in that frame, at the first
\* radius; when no sweep is running the map and the list are empty.
C18_SweepScoped ==
    /\ (pc = "sweep" /\ sweepFrames = 1) =>
          /\ sampled = AllAngles
          /\ \A a \in DOMAIN excluded_angles : excluded_angles[a] = FirstRadius
          /\ Len(drawn_pixels) = Cardinality(DOMAIN excluded_angles)
    /\ pc # "sweep" =>
          /\ DOMAIN excluded_angles = {}
          /\ drawn_pixels = <<>>

\* C18 witness: the first frame of the second sweep of a level, from the
\* spawn point, has sampled every angle and blocked one.
C18_Witness ==
    /\ pc = "sweep"
    /\ sweepFrames = 1
    /\ sweepsStarted = 2
    /\ ship = Spawn
    /\ sampled = AllAngles
    /\ DOMAIN excluded_angles # {}

\* C19: in a sweep the drawn-pixel list is as long as the exclusion map has
\* entries and every stored radius is at least SHIP_SIZE and at most the
\* radius of the frame; from one frame to the next the list keeps what it
\* held and gains one pixel for each angle that enters the map, each entered
\* with the radius of the new frame, and the gaps which that frame draws, the
\* entries the map held before it, have radii strictly below its radius.
C19_PixelPerAngle ==
    /\ [](pc = "sweep" =>
            /\ Len(drawn_pixels) = Cardinality(DOMAIN excluded_angles)
            /\ \A a \in DOMAIN excluded_angles :
                  /\ excluded_angles[a] >= SHIP_SIZE
                  /\ excluded_angles[a] > 0
                  /\ excluded_angles[a] <= scan_radius)
    /\ [][ (pc = "sweep" /\ pc' = "sweep") =>
              /\ Len(drawn_pixels') >= Len(drawn_pixels)
              /\ SubSeq(drawn_pixels', 1, Len(drawn_pixels)) = drawn_pixels
              /\ Len(drawn_pixels') - Len(drawn_pixels)
                    = Cardinality(DOMAIN excluded_angles' \ DOMAIN excluded_angles)
              /\ \A a \in DOMAIN excluded_angles' \ DOMAIN excluded_angles :
                    excluded_angles'[a] = scan_radius'
              /\ \A a \in DOMAIN excluded_angles : excluded_angles[a] < scan_radius' ]_vars

\* C19 witness: the second frame of a sweep over asteroids with equal edges,
\* so that each sample near an edge matches several edges of the level's
\* list: one pixel was drawn in the first frame and one in the second.
C19_Witness ==
    /\ pc = "sweep"
    /\ sweepFrames = 2
    /\ Len(asteroids) >= 2
    /\ asteroids[1] = asteroids[2]
    /\ Len(drawn_pixels) = 2
    /\ Cardinality({excluded_angles[a] : a \in DOMAIN excluded_angles}) = 2

\* the level's asteroids are made and its loop (lines 228-269) runs or has returned
LevelPlaying == pc \in {"play", "frame", "sweep", "won", "lost"}

\* C20: from one frame of a sweep to the next the ship, the destination, the
\* asteroids (and so their edges) and the scan budget stay as they are; the
\* level is Won or Lost only in a step in which the sweep has ended; and
\* the destination and the asteroids do not change while the level is played.
C20_FrozenDuringSweep ==
    /\ [][ (pc = "sweep" /\ pc' = "sweep") =>
              /\ ship' = ship
              /\ destination' = destination
              /\ asteroids' = asteroids
              /\ EdgeSet(asteroids') = EdgeSet(asteroids)
              /\ scans' = scans ]_vars
    /\ [][ (pc = "sweep" /\ pc' \in {"won", "lost"}) =>
              sweepEnd' \in {"interrupted", "completed"} ]_vars
    /\ [][ (pc \in {"play", "frame"} /\ pc' = "sweep") => ship' = ship ]_vars
    /\ [][ (LevelPlaying /\ LevelPlaying') =>
              /\ destination' = destination
              /\ asteroids' = asteroids ]_vars

\* C20 witness: the second frame of a sweep from a point the ship had moved
\* to, with a movement key tapped during the sweep and budget left.
C20_Witness ==
    /\ pc = "sweep"
    /\ sweepFrames = 2
    /\ checkTapped
    /\ ship # Spawn
    /\ scans > 0
    /\ Len(asteroids) = NUM_ASTEROIDS + level

====
